---- MODULE Spec2Model ----
(***************************************************************************)
(* Model of src/sat/sat_parallel.cpp: the broadcast ring buffer            *)
(* (parallel::vector_pool), the unit exchange log and the coordinator      *)
(* operations exchange / share_clause / get_clauses of sat::parallel.      *)
(***************************************************************************)
EXTENDS Integers, Sequences, FiniteSets, TLC

(***************************************************************************)
(* Bounds of the model.                                                    *)
(***************************************************************************)
\* number of solvers (threads): num_extra_solvers + 1
NumThreads == 2
\* capacity handed to reserve
PoolSize == 5
\* largest payload length of a record
MaxLen == 2
\* number of records written in a behaviour
MaxWrites == 3

\* number of distinct unit literals
MaxLit == 2
\* longest literal vector handed to exchange
MaxIn == 2
\* number of coordinator calls the solvers make in a behaviour
MaxCalls == 3

Solvers == 0 .. (NumThreads - 1)
Lens == 0 .. MaxLen
Lits == 1 .. MaxLit

VARIABLES
    m_pool,      \* parallel::m_pool: the vector_pool (ring buffer)
    pc,          \* per solver: position of its thread
    todo,        \* per solver: literals of the record still to be added
    nwritten,    \* history: number of writes begun
    wrec,        \* history: per solver, the record its write in progress stores
    stored,      \* history: the records written in full and not overwritten since
    mark,        \* history: per consumer, its standing towards the last write
    ret,         \* result of the get_vector call, when the last step was one
    m_units,     \* parallel::m_units: the global unit log
    m_unit_set,  \* parallel::m_unit_set: indices of the literals in the log
    syncing,     \* per solver: solver::m_par_syncing_clauses (the guard flag)
    lock,        \* the threads inside the critical region par_solver
    limit,       \* per solver: the watermark it hands to exchange
    delivered,   \* history: per solver, the clauses handed to mk_clause_core
    author,      \* history kept by LogExchange: who appended each log entry
    ev,          \* the call made by the last step, when it made one
    ncalls       \* history: number of calls made by the solvers' threads

vars == <<m_pool, pc, todo, nwritten, wrec, stored, mark, ret,
          m_units, m_unit_set, syncing, lock, limit, delivered, author, ev, ncalls>>

pool_vars == <<m_pool, pc, todo, nwritten, wrec, stored, mark, ret>>
coord_vars == <<m_units, m_unit_set, syncing, lock, limit, delivered, author, ev, ncalls>>

(***************************************************************************)
(* vector_pool                                                             *)
(***************************************************************************)
\* header word 0 of the record at index
get_owner(P, index) == P.m_vectors[index]

\* header word 1 of the record at index
get_length(P, index) == P.m_vectors[index + 1]

\* first payload word of the record at index
get_ptr(P, index) == index + 2

\* the n words the caller reads through ptr
\* (a word past the end of m_vectors reads as -1, a value no write stores)
slice(P, ptr, n) ==
    [i \in 1 .. n |-> IF (ptr + i - 1) \in DOMAIN P.m_vectors
                      THEN P.m_vectors[ptr + i - 1] ELSE -1]

next(P, index) ==
    LET n == index + 2 + get_length(P, index)
    IN  IF n >= P.m_size THEN 0 ELSE n

\* (variant: every consumer starts with its at-tail flag clear)
reserve_notatend(num_threads, sz) ==
    [ m_vectors |-> [i \in 0 .. (sz - 1) |-> 0],
      m_heads   |-> [i \in 0 .. (num_threads - 1) |-> 0],
      m_at_end  |-> [i \in 0 .. (num_threads - 1) |-> FALSE],
      m_tail    |-> 0,
      m_size    |-> sz ]

reserve(num_threads, sz) ==
    [ m_vectors |-> [i \in 0 .. (sz - 1) |-> 0],
      m_heads   |-> [i \in 0 .. (num_threads - 1) |-> 0],
      m_at_end  |-> [i \in 0 .. (num_threads - 1) |-> TRUE],
      m_tail    |-> 0,
      m_size    |-> sz ]

\* vector::reserve(s, 0): grow to s words, new words zero
vec_reserve(vec, s) ==
    LET len == Cardinality(DOMAIN vec)
    IN  IF s > len
        THEN vec @@ [i \in len .. (s - 1) |-> 0]
        ELSE vec

\* m_vectors[m_tail++] = e
push_tail(P, e) ==
    [P EXCEPT !.m_vectors[P.m_tail] = e,
              !.m_tail = P.m_tail + 1]

\* (variant: the cursors inside the span are left where they are)
skip_head_stay(P, h, capacity) == h

\* the while loop of begin_add_vector for one head
RECURSIVE skip_head(_, _, _)
skip_head(P, h, capacity) ==
    IF P.m_tail < h /\ h < P.m_tail + capacity
    THEN skip_head(P, next(P, h), capacity)
    ELSE h

\* (variant: the at-tail flags are left as they are)
begin_add_vector_keepflag(P, owner, n) ==
    LET capacity == n + 2
        P1 == [P EXCEPT !.m_vectors = vec_reserve(P.m_vectors, P.m_size + capacity)]
        P2 == [P1 EXCEPT
                 !.m_heads  = [i \in DOMAIN P1.m_heads |->
                                  skip_head(P1, P1.m_heads[i], capacity)]]
    IN  push_tail(push_tail(P2, owner), n)

begin_add_vector(P, owner, n) ==
    LET capacity == n + 2
        P1 == [P EXCEPT !.m_vectors = vec_reserve(P.m_vectors, P.m_size + capacity)]
        P2 == [P1 EXCEPT
                 !.m_heads  = [i \in DOMAIN P1.m_heads |->
                                  skip_head(P1, P1.m_heads[i], capacity)],
                 !.m_at_end = [i \in DOMAIN P1.m_at_end |-> FALSE]]
    IN  push_tail(push_tail(P2, owner), n)

add_vector_elem(P, e) == push_tail(P, e)

end_add_vector(P) ==
    IF P.m_tail >= P.m_size THEN [P EXCEPT !.m_tail = 0] ELSE P

\* (variant: the loop needs both, a cursor off the write cursor and a clear
\* at-tail flag)
RECURSIVE get_vector_and(_, _)
get_vector_and(P, owner) ==
    LET head == P.m_heads[owner]
    IN  IF head # P.m_tail /\ ~P.m_at_end[owner]
        THEN LET is_self == (owner = get_owner(P, head))
                 nh      == next(P, head)
                 P1      == [P EXCEPT !.m_heads[owner] = nh,
                                      !.m_at_end[owner] = (nh = P.m_tail)]
             IN  IF ~is_self
                 THEN [pool |-> P1, ok |-> TRUE, n |-> get_length(P, head),
                       ptr |-> get_ptr(P, head), head |-> head]
                 ELSE get_vector_and(P1, owner)
        ELSE [pool |-> P, ok |-> FALSE, n |-> 0, ptr |-> 0, head |-> head]

\* (variant: next moves the local copy of the cursor, not m_heads[owner],
\* when the record is returned)
RECURSIVE get_vector_nomove(_, _)
get_vector_nomove(P, owner) ==
    LET head == P.m_heads[owner]
    IN  IF head # P.m_tail \/ ~P.m_at_end[owner]
        THEN LET is_self == (owner = get_owner(P, head))
                 nh      == next(P, head)
                 P1      == [P EXCEPT !.m_heads[owner] = nh,
                                      !.m_at_end[owner] = (nh = P.m_tail)]
             IN  IF ~is_self
                 THEN [pool |-> P, ok |-> TRUE, n |-> get_length(P, head),
                       ptr |-> get_ptr(P, head), head |-> head]
                 ELSE get_vector_nomove(P1, owner)
        ELSE [pool |-> P, ok |-> FALSE, n |-> 0, ptr |-> 0, head |-> head]

\* (variant: n and ptr are taken at the cursor after it has moved)
RECURSIVE get_vector_newhead(_, _)
get_vector_newhead(P, owner) ==
    LET head == P.m_heads[owner]
    IN  IF head # P.m_tail \/ ~P.m_at_end[owner]
        THEN LET is_self == (owner = get_owner(P, head))
                 nh      == next(P, head)
                 P1      == [P EXCEPT !.m_heads[owner] = nh,
                                      !.m_at_end[owner] = (nh = P.m_tail)]
             IN  IF ~is_self
                 THEN [pool |-> P1, ok |-> TRUE, n |-> get_length(P1, nh),
                       ptr |-> get_ptr(P1, nh), head |-> head]
                 ELSE get_vector_newhead(P1, owner)
        ELSE [pool |-> P, ok |-> FALSE, n |-> 0, ptr |-> 0, head |-> head]

\* (variant: the owner of the record is not compared with the caller)
get_vector_noself(P, owner) ==
    LET head == P.m_heads[owner]
    IN  IF head # P.m_tail \/ ~P.m_at_end[owner]
        THEN LET nh == next(P, head)
                 P1 == [P EXCEPT !.m_heads[owner] = nh,
                                 !.m_at_end[owner] = (nh = P.m_tail)]
             IN  [pool |-> P1, ok |-> TRUE, n |-> get_length(P1, head),
                  ptr |-> get_ptr(P1, head), head |-> head]
        ELSE [pool |-> P, ok |-> FALSE, n |-> 0, ptr |-> 0, head |-> head]

\* get_vector: the pool after the call, the result, n and ptr, and the
\* index (head) of the record returned
RECURSIVE get_vector(_, _)
get_vector(P, owner) ==
    LET head == P.m_heads[owner]
    IN  IF head # P.m_tail \/ ~P.m_at_end[owner]
        THEN LET is_self == (owner = get_owner(P, head))
                 nh      == next(P, head)
                 P1      == [P EXCEPT !.m_heads[owner] = nh,
                                      !.m_at_end[owner] = (nh = P.m_tail)]
             IN  IF ~is_self
                 THEN [pool |-> P1, ok |-> TRUE, n |-> get_length(P1, head),
                       ptr |-> get_ptr(P1, head), head |-> head]
                 ELSE get_vector(P1, owner)
        ELSE [pool |-> P, ok |-> FALSE, n |-> 0, ptr |-> 0, head |-> head]

(***************************************************************************)
(* parallel: the unit exchange log.  A literal is held as its index        *)
(* (literal::index() returns the one field of a literal).                  *)
(***************************************************************************)
Range(q) == {q[i] : i \in DOMAIN q}

SeqsUpTo(S, n) == UNION {[1 .. k -> S] : k \in 0 .. n}

\* (variant: the literal is pushed without being entered into m_unit_set)
RECURSIVE fold_units_noinsert(_, _, _, _)
fold_units_noinsert(units, unit_set, in, i) ==
    IF i > Len(in) THEN [units |-> units, unit_set |-> unit_set]
    ELSE IF in[i] \notin unit_set
         THEN fold_units_noinsert(Append(units, in[i]), unit_set, in, i + 1)
         ELSE fold_units_noinsert(units, unit_set, in, i + 1)

\* the for loop of exchange, from in[i] on (i counts from 1)
RECURSIVE fold_units(_, _, _, _)
fold_units(units, unit_set, in, i) ==
    IF i > Len(in) THEN [units |-> units, unit_set |-> unit_set]
    ELSE IF in[i] \notin unit_set
         THEN fold_units(Append(units, in[i]), unit_set \cup {in[i]}, in, i + 1)
         ELSE fold_units(units, unit_set, in, i + 1)

\* (variant: the whole log is appended, from its first entry)
copy_out_fromzero(units, lim, out) ==
    IF lim < Len(units) THEN out \o units ELSE out

\* out.append(m_units.size() - limit, m_units.c_ptr() + limit)
copy_out(units, lim, out) ==
    IF lim < Len(units)
    THEN out \o [i \in 1 .. (Len(units) - lim) |-> units[lim + i]]
    ELSE out

\* (variant: the input is folded into the log before the log is copied out)
exchange_body_foldfirst(units, unit_set, in, lim, out) ==
    LET f == fold_units(units, unit_set, in, 1)
    IN  [units |-> f.units, unit_set |-> f.unit_set,
         limit |-> Len(f.units), out |-> copy_out(f.units, lim, out)]

\* the critical region of exchange
exchange_body(units, unit_set, in, lim, out) ==
    LET f == fold_units(units, unit_set, in, 1)
    IN  [units |-> f.units, unit_set |-> f.unit_set,
         limit |-> Len(f.units), out |-> copy_out(units, lim, out)]

\* (variant: one flag for all solvers, the flag of solver 0)
is_syncing_first(sync, s) == sync[0]

\* (variant: the guard flag is not looked at)
is_syncing_never(sync, s) == FALSE

\* if (s.m_par_syncing_clauses) return;
is_syncing(sync, s) == sync[s]

\* exchange, the whole call: what it leaves in the log, the set, limit and out
exchange(sync, s, units, unit_set, in, lim, out) ==
    IF is_syncing(sync, s)
    THEN [units |-> units, unit_set |-> unit_set, limit |-> lim, out |-> out]
    ELSE exchange_body(units, unit_set, in, lim, out)

\* (variant: the glue alone never admits a clause)
enable_add_sizeglue(size, glue) == size <= 40 /\ glue <= 8

\* enable_add (plingeling, glucose heuristic) on a clause of given size, glue
enable_add(size, glue) == (size <= 40 /\ glue <= 8) \/ glue <= 2

\* the loop of add_vector_elem calls for lits[i], ..., lits[Len(lits)]:
\* each m_vectors[m_tail++] = lits[k], so lits[k] lands at m_tail + (k - i)
add_elems(P, lits, i) ==
    LET cnt == IF i > Len(lits) THEN 0 ELSE Len(lits) - i + 1
    IN  [P EXCEPT !.m_vectors = [j \in DOMAIN P.m_vectors |->
                                    IF P.m_tail <= j /\ j < P.m_tail + cnt
                                    THEN lits[i + (j - P.m_tail)]
                                    ELSE P.m_vectors[j]],
                  !.m_tail = P.m_tail + cnt]

\* the critical region of share_clause: one complete record owner : lits
share_body(P, owner, lits) ==
    end_add_vector(add_elems(begin_add_vector(P, owner, Len(lits)), lits, 1))

\* share_clause(s, l1, l2), the whole call: the pool it leaves
share_clause2(sync, s, P, l1, l2) ==
    IF is_syncing(sync, s) THEN P ELSE share_body(P, s, <<l1, l2>>)

\* share_clause(s, c), the whole call: the pool it leaves
share_clause(sync, s, P, lits, glue) ==
    IF ~enable_add(Len(lits), glue) \/ is_syncing(sync, s)
    THEN P
    ELSE share_body(P, s, lits)

\* _get_clauses: the pool once get_vector has returned false
RECURSIVE drain(_, _)
drain(P, owner) ==
    LET r == get_vector(P, owner)
    IN  IF r.ok THEN drain(r.pool, owner) ELSE r.pool

\* get_clauses(s), the whole call: the pool it leaves
get_clauses(sync, s, P) ==
    IF is_syncing(sync, s) THEN P ELSE drain(P, s)

\* (variant: a region that is not named par_solver excludes nobody)
critical_free_always(lk) == TRUE

\* #pragma omp critical (par_solver): a thread enters when no thread is inside
critical_free(lk) == lk = {}

\* flet<bool> _disable_sync_clause(s.m_par_syncing_clauses, true)
flet_set(sync, s) == [sync EXCEPT ![s] = TRUE]

\* (variant: the flag is left set when the call returns)
flet_restore_keep(sync, s) == sync

\* ~flet: the value saved at construction (false past the guard) is put back
flet_restore(sync, s) == [sync EXCEPT ![s] = FALSE]

(***************************************************************************)
(* History kept beside the program state.                                  *)
(***************************************************************************)
NoRec == [pos |-> 0, seq |-> 0, owner |-> 0, lits |-> <<>>]
NoRet == [op |-> "none", caller |-> 0, ok |-> FALSE, n |-> 0, lits |-> <<>>,
          from |-> 0, head |-> 0, mark |-> "read"]

\* the literals of the k-th record written: distinct from every other record's
Payload(k, n) == [i \in 1 .. n |-> 100 * k + i]

span(pos, n) == pos .. (pos + n + 1)

\* the records a write of n payload words at pos leaves whole
clobber(st, pos, n) ==
    {r \in st : span(r.pos, Len(r.lits)) \cap span(pos, n) = {}}

\* the record stored in full at pos, NoRec when there is none
RecAt(pos) ==
    IF \E r \in stored : r.pos = pos
    THEN CHOOSE r \in stored : r.pos = pos
    ELSE NoRec

\* the record of the last complete write
LastRec ==
    IF \E r \in stored : r.seq = nwritten
    THEN CHOOSE r \in stored : r.seq = nwritten
    ELSE NoRec

Writing == {s \in Solvers : pc[s] # "idle"}

NoEv == [kind |-> "none"]

\* the coordinator as its constructor and init_solvers leave it
CoordInit ==
    /\ m_units = << >>
    /\ m_unit_set = {}
    /\ syncing = [s \in Solvers |-> FALSE]
    /\ lock = {}
    /\ limit = [s \in Solvers |-> 0]
    /\ delivered = [s \in Solvers |-> << >>]
    /\ author = << >>
    /\ ev = NoEv
    /\ ncalls = 0

(***************************************************************************)
(* The ring buffer driven through its own interface: complete producer     *)
(* writes and get_vector calls in any order.                               *)
(***************************************************************************)
PoolInit ==
    /\ m_pool = reserve(NumThreads, PoolSize)
    /\ pc = [s \in Solvers |-> "idle"]
    /\ todo = [s \in Solvers |-> <<>>]
    /\ nwritten = 0
    /\ wrec = [s \in Solvers |-> NoRec]
    /\ stored = {}
    /\ mark = [s \in Solvers |-> "read"]
    /\ ret = NoRet
    /\ CoordInit

PoolBegin(o, n) ==
    /\ Writing = {}
    /\ nwritten < MaxWrites
    /\ m_pool' = begin_add_vector(m_pool, o, n)
    /\ pc' = [pc EXCEPT ![o] = "adding"]
    /\ todo' = [todo EXCEPT ![o] = Payload(nwritten + 1, n)]
    /\ nwritten' = nwritten + 1
    /\ wrec' = [wrec EXCEPT ![o] = [pos |-> m_pool.m_tail, seq |-> nwritten + 1,
                                    owner |-> o, lits |-> Payload(nwritten + 1, n)]]
    /\ stored' = clobber(stored, m_pool.m_tail, n)
    /\ mark' = [c \in Solvers |->
                  IF m_pool.m_heads[c] = m_pool.m_tail THEN "caught" ELSE "behind"]
    /\ ret' = [op |-> "begin", caller |-> o, ok |-> FALSE, n |-> n, lits |-> <<>>,
               from |-> 0, head |-> 0, mark |-> "read", pool0 |-> m_pool]
    /\ UNCHANGED coord_vars

PoolElem(o) ==
    /\ pc[o] = "adding"
    /\ todo[o] # << >>
    /\ m_pool' = add_vector_elem(m_pool, Head(todo[o]))
    /\ todo' = [todo EXCEPT ![o] = Tail(todo[o])]
    /\ ret' = NoRet
    /\ UNCHANGED <<pc, nwritten, wrec, stored, mark>>
    /\ UNCHANGED coord_vars

PoolEnd(o) ==
    /\ pc[o] = "adding"
    /\ todo[o] = << >>
    /\ m_pool' = end_add_vector(m_pool)
    /\ pc' = [pc EXCEPT ![o] = "idle"]
    /\ stored' = stored \cup {wrec[o]}
    /\ wrec' = [wrec EXCEPT ![o] = NoRec]
    /\ ret' = NoRet
    /\ UNCHANGED <<todo, nwritten, mark>>
    /\ UNCHANGED coord_vars

PoolGet(c) ==
    /\ Writing = {}
    /\ LET r == get_vector(m_pool, c)
       IN  /\ m_pool' = r.pool
           /\ ret' = [op |-> "get", caller |-> c, ok |-> r.ok, n |-> r.n,
                      lits |-> IF r.ok THEN slice(r.pool, r.ptr, r.n) ELSE <<>>,
                      from |-> m_pool.m_heads[c], head |-> r.head,
                      mark |-> mark[c]]
    /\ mark' = [mark EXCEPT ![c] = "read"]
    /\ UNCHANGED <<pc, todo, nwritten, wrec, stored>>
    /\ UNCHANGED coord_vars

PoolNext ==
    \/ \E o \in Solvers, n \in Lens : PoolBegin(o, n)
    \/ \E o \in Solvers : PoolElem(o)
    \/ \E o \in Solvers : PoolEnd(o)
    \/ \E c \in Solvers : PoolGet(c)

SpecPool == PoolInit /\ [][PoolNext]_vars

(***************************************************************************)
(* Properties of the ring buffer.                                          *)
(***************************************************************************)
\* C1: every successful get_vector returns the length and the payload of one
\* record that was written in full and is still whole: the record stored at
\* the index the cursor stood on.
C1_ReturnsWholeRecord ==
    (ret.op = "get" /\ ret.ok) =>
        /\ RecAt(ret.head).seq # 0
        /\ ret.n = Len(RecAt(ret.head).lits)
        /\ ret.lits = RecAt(ret.head).lits

\* a consumer that was behind receives the record that overwrote index 0
C1_Witness ==
    /\ ret.op = "get" /\ ret.ok /\ ret.mark = "behind"
    /\ ret.head = 0 /\ RecAt(0).seq >= 3 /\ ret.lits = RecAt(0).lits

\* C2: get_vector(i) never returns a record written by owner i.
C2_SelfExclusion ==
    (ret.op = "get" /\ ret.ok) =>
        /\ RecAt(ret.head).seq # 0
        /\ RecAt(ret.head).owner # ret.caller

\* the cursor of i passed over a record of i, across the end of the buffer,
\* and returned the record after it
C2_Witness ==
    /\ ret.op = "get" /\ ret.ok
    /\ ret.head < ret.from
    /\ RecAt(ret.from).seq # 0 /\ RecAt(ret.from).owner = ret.caller

\* C3 as stated: the first get_vector(c) after a complete write by another
\* owner returns that write's record, whatever c had left unread.
C3_RoundTripAnyState ==
    (ret.op = "get" /\ ret.mark # "read" /\ LastRec.owner # ret.caller) =>
        /\ ret.ok
        /\ ret.n = Len(LastRec.lits)
        /\ ret.lits = LastRec.lits

\* C3 amended: the first get_vector(c) after a complete write by another
\* owner returns that write's length and elements in order, when the read
\* cursor of c equalled the write cursor as begin_add_vector was invoked.
C3_RoundTripCaughtUp ==
    (ret.op = "get" /\ ret.mark = "caught" /\ LastRec.owner # ret.caller) =>
        /\ ret.ok
        /\ LastRec.seq = nwritten
        /\ ret.n = Len(LastRec.lits)
        /\ ret.lits = LastRec.lits

\* a caught-up consumer reads back a two-literal record written after the
\* write cursor wrapped
C3_Witness ==
    /\ ret.op = "get" /\ ret.ok /\ ret.mark = "caught"
    /\ LastRec.owner # ret.caller
    /\ nwritten >= 3 /\ Len(ret.lits) = 2 /\ ret.lits = LastRec.lits

\* C5: every stored record ends at or before index size: none has a word at
\* or past index size of the buffer.
C5_SpanWithinSize ==
    \A r \in stored : r.pos + 2 + Len(r.lits) <= m_pool.m_size

(***************************************************************************)
(* Scenario C: reserve(., 10), a record of payload length 6, then a record *)
(* of payload length 2, with get_vector calls at any point between.        *)
(***************************************************************************)
ScenarioInit ==
    /\ m_pool = reserve(NumThreads, 10)
    /\ pc = [s \in Solvers |-> "idle"]
    /\ todo = [s \in Solvers |-> <<>>]
    /\ nwritten = 0
    /\ wrec = [s \in Solvers |-> NoRec]
    /\ stored = {}
    /\ mark = [s \in Solvers |-> "read"]
    /\ ret = NoRet
    /\ CoordInit

ScenarioNext ==
    \/ \E o \in Solvers : nwritten = 0 /\ PoolBegin(o, 6)
    \/ \E o \in Solvers : nwritten = 1 /\ PoolBegin(o, 2)
    \/ \E o \in Solvers : PoolElem(o)
    \/ \E o \in Solvers : PoolEnd(o)
    \/ \E c \in Solvers : PoolGet(c)

SpecScenarioC == ScenarioInit /\ [][ScenarioNext]_vars

\* the two records of the scenario, stored or being written
ScenarioRecs == stored \cup {wrec[s] : s \in Solvers}

\* C6: the second record is placed at index 0, the cursor of a
\* consumer that had not read the first record is moved past [0,8), and no
\* get_vector after the second write returns the first record.
C6_SecondWriteResetsFirst ==
    (nwritten = 2 /\ Writing = {}) =>
        /\ \A r \in stored : r.seq = 2 => r.pos = 0
        /\ \A c \in Solvers : mark[c] = "behind" => m_pool.m_heads[c] >= 8
        /\ (ret.op = "get" /\ ret.ok) => ret.lits # Payload(1, 6)

(***************************************************************************)
(* The coordinator: one thread per solver, each calling exchange,          *)
(* share_clause and get_clauses; mk_clause_core, run inside get_clauses,   *)
(* may call back into the coordinator for the same solver.                 *)
(***************************************************************************)
\* clause sizes and glues of the clauses handed to share_clause(s, c)
ClauseLens == Lens \ {0, 1}
Glues == {8, 9}

\* share calls accepted so far: a fresh number for the literals of the next
Accepted == nwritten + Cardinality({t \in Solvers : pc[t] \in {"sh_wait", "sh_begin"}})

Init ==
    /\ m_pool = reserve(NumThreads, 2 * PoolSize)
    /\ pc = [s \in Solvers |-> "idle"]
    /\ todo = [s \in Solvers |-> <<>>]
    /\ nwritten = 0
    /\ wrec = [s \in Solvers |-> NoRec]
    /\ stored = {}
    /\ mark = [s \in Solvers |-> "read"]
    /\ ret = NoRet
    /\ CoordInit

\* exchange(s, in, limit, out) is called: lines 125-126
ExCall(s, in) ==
    /\ pc[s] = "idle"
    /\ ncalls < MaxCalls
    /\ ncalls' = ncalls + 1
    /\ IF is_syncing(syncing, s)
       THEN UNCHANGED <<pc, todo, syncing>>
       ELSE /\ syncing' = flet_set(syncing, s)
            /\ pc' = [pc EXCEPT ![s] = "ex_wait"]
            /\ todo' = [todo EXCEPT ![s] = in]
    /\ ev' = [kind |-> "call", op |-> "exchange", s |-> s]
    /\ ret' = NoRet
    /\ UNCHANGED <<m_pool, nwritten, wrec, stored, mark>>
    /\ UNCHANGED <<m_units, m_unit_set, lock, limit, delivered, author>>

\* share_clause(s, l1, l2) is called: lines 145-146
ShCall2(s) ==
    /\ pc[s] = "idle"
    /\ ncalls < MaxCalls
    /\ ncalls' = ncalls + 1
    /\ Accepted < MaxWrites
    /\ IF is_syncing(syncing, s)
       THEN UNCHANGED <<pc, todo, syncing>>
       ELSE /\ syncing' = flet_set(syncing, s)
            /\ pc' = [pc EXCEPT ![s] = "sh_wait"]
            /\ todo' = [todo EXCEPT ![s] = Payload(Accepted + 1, 2)]
    /\ ev' = [kind |-> "call", op |-> "share_clause2", s |-> s]
    /\ ret' = NoRet
    /\ UNCHANGED <<m_pool, nwritten, wrec, stored, mark>>
    /\ UNCHANGED <<m_units, m_unit_set, lock, limit, delivered, author>>

\* share_clause(s, c) is called: lines 158-161
ShCall(s, n, glue) ==
    /\ pc[s] = "idle"
    /\ ncalls < MaxCalls
    /\ ncalls' = ncalls + 1
    /\ Accepted < MaxWrites
    /\ IF ~enable_add(n, glue) \/ is_syncing(syncing, s)
       THEN UNCHANGED <<pc, todo, syncing>>
       ELSE /\ syncing' = flet_set(syncing, s)
            /\ pc' = [pc EXCEPT ![s] = "sh_wait"]
            /\ todo' = [todo EXCEPT ![s] = Payload(Accepted + 1, n)]
    /\ ev' = [kind |-> "call", op |-> "share_clause", s |-> s]
    /\ ret' = NoRet
    /\ UNCHANGED <<m_pool, nwritten, wrec, stored, mark>>
    /\ UNCHANGED <<m_units, m_unit_set, lock, limit, delivered, author>>

\* get_clauses(s) is called: lines 174-175
GcCall(s) ==
    /\ pc[s] = "idle"
    /\ ncalls < MaxCalls
    /\ ncalls' = ncalls + 1
    /\ IF is_syncing(syncing, s)
       THEN UNCHANGED <<pc, syncing>>
       ELSE /\ syncing' = flet_set(syncing, s)
            /\ pc' = [pc EXCEPT ![s] = "gc_wait"]
    /\ ev' = [kind |-> "call", op |-> "get_clauses", s |-> s]
    /\ ret' = NoRet
    /\ UNCHANGED <<m_pool, todo, nwritten, wrec, stored, mark>>
    /\ UNCHANGED <<m_units, m_unit_set, lock, limit, delivered, author>>

\* the thread enters the critical region par_solver: lines 127, 147, 162, 176
Enter(s) ==
    /\ pc[s] \in {"ex_wait", "sh_wait", "gc_wait"}
    /\ UNCHANGED ncalls
    /\ critical_free(lock)
    /\ lock' = lock \cup {s}
    /\ pc' = [pc EXCEPT ![s] = CASE pc[s] = "ex_wait" -> "ex_crit"
                                 [] pc[s] = "sh_wait" -> "sh_begin"
                                 [] OTHER -> "gc_loop"]
    /\ ev' = NoEv
    /\ ret' = NoRet
    /\ UNCHANGED <<m_pool, todo, nwritten, wrec, stored, mark>>
    /\ UNCHANGED <<m_units, m_unit_set, syncing, limit, delivered, author>>

\* exchange: lines 129-141, then the region and the call end
ExBody(s) ==
    /\ pc[s] = "ex_crit"
    /\ UNCHANGED ncalls
    /\ LET r == exchange_body(m_units, m_unit_set, todo[s], limit[s], << >>)
       IN  /\ m_units' = r.units
           /\ m_unit_set' = r.unit_set
           /\ limit' = [limit EXCEPT ![s] = r.limit]
           /\ ev' = [kind |-> "exchange", s |-> s, in |-> todo[s], w |-> limit[s],
                     out0 |-> << >>, units0 |-> m_units, out |-> r.out]
    /\ lock' = lock \ {s}
    /\ syncing' = flet_restore(syncing, s)
    /\ pc' = [pc EXCEPT ![s] = "idle"]
    /\ todo' = [todo EXCEPT ![s] = << >>]
    /\ ret' = NoRet
    /\ UNCHANGED <<m_pool, nwritten, wrec, stored, mark, delivered, author>>

\* share_clause: begin_add_vector, lines 150 and 165
ShBegin(s) ==
    /\ pc[s] = "sh_begin"
    /\ UNCHANGED ncalls
    /\ m_pool' = begin_add_vector(m_pool, s, Len(todo[s]))
    /\ pc' = [pc EXCEPT ![s] = "sh_add"]
    /\ nwritten' = nwritten + 1
    /\ wrec' = [wrec EXCEPT ![s] = [pos |-> m_pool.m_tail, seq |-> nwritten + 1,
                                    owner |-> s, lits |-> todo[s]]]
    /\ stored' = clobber(stored, m_pool.m_tail, Len(todo[s]))
    /\ mark' = [c \in Solvers |->
                  IF m_pool.m_heads[c] = m_pool.m_tail THEN "caught" ELSE "behind"]
    /\ ev' = NoEv
    /\ ret' = NoRet
    /\ UNCHANGED <<todo, m_units, m_unit_set, syncing, lock, limit, delivered, author>>

\* share_clause: add_vector_elem, lines 151-152 and 166-168
ShAdd(s) ==
    /\ pc[s] = "sh_add"
    /\ UNCHANGED ncalls
    /\ todo[s] # << >>
    /\ m_pool' = add_vector_elem(m_pool, Head(todo[s]))
    /\ todo' = [todo EXCEPT ![s] = Tail(todo[s])]
    /\ ev' = NoEv
    /\ ret' = NoRet
    /\ UNCHANGED <<pc, nwritten, wrec, stored, mark>>
    /\ UNCHANGED <<m_units, m_unit_set, syncing, lock, limit, delivered, author>>

\* share_clause: end_add_vector, lines 153 and 169, then the region and the
\* call end
ShEnd(s) ==
    /\ pc[s] = "sh_add"
    /\ UNCHANGED ncalls
    /\ todo[s] = << >>
    /\ m_pool' = end_add_vector(m_pool)
    /\ stored' = stored \cup {wrec[s]}
    /\ wrec' = [wrec EXCEPT ![s] = NoRec]
    /\ lock' = lock \ {s}
    /\ syncing' = flet_restore(syncing, s)
    /\ pc' = [pc EXCEPT ![s] = "idle"]
    /\ ev' = [kind |-> "return", op |-> "share_clause", s |-> s]
    /\ ret' = NoRet
    /\ UNCHANGED <<todo, nwritten, mark, m_units, m_unit_set, limit, delivered, author>>

\* _get_clauses: one get_vector call; a record found is rebuilt in m_lits
\* and handed to mk_clause_core (lines 186-193), none ends the region and
\* the call
GcGet(s) ==
    /\ pc[s] = "gc_loop"
    /\ UNCHANGED ncalls
    /\ LET r    == get_vector(m_pool, s)
           lits == IF r.ok THEN slice(r.pool, r.ptr, r.n) ELSE << >>
       IN  /\ m_pool' = r.pool
           /\ ret' = [op |-> "get", caller |-> s, ok |-> r.ok, n |-> r.n,
                      lits |-> lits, from |-> m_pool.m_heads[s], head |-> r.head,
                      mark |-> mark[s]]
           /\ IF r.ok
              THEN /\ delivered' = [delivered EXCEPT ![s] = Append(@, lits)]
                   /\ pc' = [pc EXCEPT ![s] = "gc_core"]
                   /\ ev' = NoEv
                   /\ UNCHANGED <<lock, syncing>>
              ELSE /\ lock' = lock \ {s}
                   /\ syncing' = flet_restore(syncing, s)
                   /\ pc' = [pc EXCEPT ![s] = "idle"]
                   /\ ev' = [kind |-> "return", op |-> "get_clauses", s |-> s]
                   /\ UNCHANGED delivered
    /\ mark' = [mark EXCEPT ![s] = "read"]
    /\ UNCHANGED <<todo, nwritten, wrec, stored, m_units, m_unit_set, limit, author>>

\* mk_clause_core, running for solver s inside the critical region, calls
\* back into the coordinator.  With the guard set the call returns at once;
\* a call that passed the guard would set the flag and wait to enter the
\* region par_solver, which its own thread holds.
Nested(s, op) ==
    /\ pc[s] = "gc_core"
    /\ IF is_syncing(syncing, s)
       THEN /\ LET x == exchange(syncing, s, m_units, m_unit_set, <<1>>, limit[s], << >>)
               IN  IF op = "exchange"
                   THEN /\ m_units' = x.units
                        /\ m_unit_set' = x.unit_set
                        /\ limit' = [limit EXCEPT ![s] = x.limit]
                        /\ ev' = [kind |-> "nested", op |-> op, s |-> s, out |-> x.out]
                   ELSE /\ UNCHANGED <<m_units, m_unit_set, limit>>
                        /\ ev' = [kind |-> "nested", op |-> op, s |-> s, out |-> << >>]
            /\ m_pool' = CASE op = "share_clause2" ->
                                share_clause2(syncing, s, m_pool, 1, 2)
                           [] op = "share_clause" ->
                                share_clause(syncing, s, m_pool, <<1, 2>>, 8)
                           [] op = "get_clauses" ->
                                get_clauses(syncing, s, m_pool)
                           [] OTHER -> m_pool
            /\ UNCHANGED <<pc, syncing>>
       ELSE /\ syncing' = flet_set(syncing, s)
            /\ pc' = [pc EXCEPT ![s] = "reenter"]
            /\ ev' = [kind |-> "nested", op |-> op, s |-> s, out |-> << >>]
            /\ UNCHANGED <<m_pool, m_units, m_unit_set, limit>>
    /\ ret' = NoRet
    /\ UNCHANGED <<todo, nwritten, wrec, stored, mark>>
    /\ UNCHANGED <<lock, delivered, author, ncalls>>

\* mk_clause_core returns into the loop of _get_clauses
GcCoreReturn(s) ==
    /\ pc[s] = "gc_core"
    /\ UNCHANGED ncalls
    /\ pc' = [pc EXCEPT ![s] = "gc_loop"]
    /\ ev' = NoEv
    /\ ret' = NoRet
    /\ UNCHANGED <<m_pool, todo, nwritten, wrec, stored, mark>>
    /\ UNCHANGED <<m_units, m_unit_set, syncing, lock, limit, delivered, author>>

NestedOps == {"exchange", "share_clause2", "share_clause", "get_clauses"}

Next ==
    \/ \E s \in Solvers, in \in SeqsUpTo(Lits, 1) : ExCall(s, in)
    \/ \E s \in Solvers : ShCall2(s)
    \/ \E s \in Solvers, n \in ClauseLens, g \in Glues : ShCall(s, n, g)
    \/ \E s \in Solvers : GcCall(s)
    \/ \E s \in Solvers : Enter(s)
    \/ \E s \in Solvers : ExBody(s)
    \/ \E s \in Solvers : ShBegin(s)
    \/ \E s \in Solvers : ShAdd(s)
    \/ \E s \in Solvers : ShEnd(s)
    \/ \E s \in Solvers : GcGet(s)
    \/ \E s \in Solvers, op \in NestedOps : Nested(s, op)
    \/ \E s \in Solvers : GcCoreReturn(s)

Spec == Init /\ [][Next]_vars

(***************************************************************************)
(* Properties of the coordinator under concurrent callers.                 *)
(***************************************************************************)
\* the words of the records in S, headers included
RECURSIVE Words(_)
Words(S) ==
    IF S = {} THEN 0
    ELSE LET r == CHOOSE r \in S : TRUE
         IN  Len(r.lits) + 2 + Words(S \ {r})

\* the records begun so far, complete or being written
Begun == stored \cup {wrec[t] : t \in {u \in Solvers : wrec[u] # NoRec}}

\* fewer words than the capacity were written since reserve: no record was
\* written over and the write cursor never returned to 0
NoWrap == Cardinality(Begun) = nwritten /\ Words(Begun) < m_pool.m_size

\* the literals of the complete records not shared by c, oldest first, from
\* the k-th record written on
RECURSIVE ForeignFrom(_, _)
ForeignFrom(c, k) ==
    IF k > nwritten THEN << >>
    ELSE LET R == {r \in stored : r.seq = k /\ r.owner # c}
         IN  (IF R = {} THEN << >> ELSE <<(CHOOSE r \in R : TRUE).lits>>)
                 \o ForeignFrom(c, k + 1)

Foreign(c) == ForeignFrom(c, 1)

\* C4: while fewer words than the capacity were written, the clauses handed
\* to mk_clause_core of solver c are records shared by other solvers, each at
\* most once, with the literals shared and oldest first; when a get_clauses
\* call of c returns, every record shared by another solver so far was handed
\* to c exactly once, and no record of c was.
C4_LosslessNoWrap ==
    NoWrap =>
        \A c \in Solvers :
            /\ Len(delivered[c]) <= Len(Foreign(c))
            /\ delivered[c] = SubSeq(Foreign(c), 1, Len(delivered[c]))
            /\ ev = [kind |-> "return", op |-> "get_clauses", s |-> c]
                  => delivered[c] = Foreign(c)

\* solver 1 shared a record and solver 0 shared a record; get_clauses of
\* solver 1 has returned, having handed over the record of solver 0 only
C4_Witness ==
    /\ NoWrap
    /\ ev = [kind |-> "return", op |-> "get_clauses", s |-> 1]
    /\ \E r1, r0 \in stored :
          /\ r1.owner = 1 /\ r0.owner = 0 /\ r1.seq < r0.seq
          /\ delivered[1] = <<r0.lits>>
    /\ delivered[0] = << >>

\* C9: a call to exchange, share_clause (either form) or get_clauses for a
\* solver whose guard flag is set changes nothing: the ring buffer, the write
\* cursor, the read cursors and at-tail flags, the unit log, the dedup set,
\* the watermarks and the guard flags stay as they are, nothing is appended
\* to out, and the call returns to mk_clause_core.
C9_ReentrantNoOp ==
    [][ (ev'.kind = "nested" /\ syncing[ev'.s]) =>
            /\ m_pool' = m_pool
            /\ m_units' = m_units
            /\ m_unit_set' = m_unit_set
            /\ limit' = limit
            /\ syncing' = syncing
            /\ ev'.out = << >>
            /\ pc' = pc ]_vars

\* exchange was called from mk_clause_core of a solver whose watermark is
\* behind the unit log and whose input literal is not in the log
C9_Witness ==
    /\ ev.kind = "nested" /\ ev.op = "exchange" /\ syncing[ev.s]
    /\ pc[ev.s] = "gc_core"
    /\ m_units = <<2>> /\ limit[ev.s] = 0

\* the threads inside the critical region par_solver
InRegion == {t \in Solvers : pc[t] \in {"ex_crit", "sh_begin", "sh_add", "gc_loop", "gc_core"}}

\* the producers between begin_add_vector and end_add_vector
Producers == {t \in Solvers : wrec[t] # NoRec}

\* C10: at most one thread is inside the critical region; at most one
\* producer is between begin_add_vector and end_add_vector, and while it is
\* no other thread is inside the region; the record a get_vector call returns
\* is a record written in full.
C10_MutualExclusion ==
    /\ Cardinality(InRegion) <= 1
    /\ lock = InRegion
    /\ Cardinality(Producers) <= 1
    /\ \A t \in Producers : InRegion = {t}
    /\ (ret.op = "get" /\ ret.ok) =>
           \E r \in stored : r.pos = ret.head /\ r.lits = ret.lits /\ ret.n = Len(r.lits)

\* a producer has written the header and one literal of a record of two
\* while a consumer waits to enter the region
C10_Witness ==
    /\ pc[0] = "sh_add" /\ Len(todo[0]) = 1 /\ Producers = {0}
    /\ pc[1] = "gc_wait"
    /\ m_pool.m_tail = 3

(***************************************************************************)
(* The unit exchange log driven by exchange calls, one call at a time:     *)
(* any caller, any input vector; each caller passes the watermark its      *)
(* previous call left and an empty out vector.                             *)
(***************************************************************************)
UnitsInit ==
    /\ m_pool = reserve(NumThreads, PoolSize)
    /\ pc = [s \in Solvers |-> "idle"]
    /\ todo = [s \in Solvers |-> <<>>]
    /\ nwritten = 0
    /\ wrec = [s \in Solvers |-> NoRec]
    /\ stored = {}
    /\ mark = [s \in Solvers |-> "read"]
    /\ ret = NoRet
    /\ CoordInit

UnitsExchange(s, in) ==
    LET r == exchange(syncing, s, m_units, m_unit_set, in, limit[s], << >>)
    IN  /\ m_units' = r.units
        /\ m_unit_set' = r.unit_set
        /\ limit' = [limit EXCEPT ![s] = r.limit]
        /\ ev' = [kind |-> "exchange", s |-> s, in |-> in, w |-> limit[s],
                  out0 |-> << >>, units0 |-> m_units, out |-> r.out]
        /\ UNCHANGED <<syncing, lock, delivered, author, ncalls>>
        /\ UNCHANGED pool_vars

UnitsNext ==
    \E s \in Solvers, in \in SeqsUpTo(Lits, MaxIn) : UnitsExchange(s, in)

SpecUnits == UnitsInit /\ [][UnitsNext]_vars

\* C7: each literal occurs at most once in the unit log, and the dedup set
\* holds exactly the literals of the log.
C7_UnitLogDedup ==
    /\ \A i, j \in DOMAIN m_units : m_units[i] = m_units[j] => i = j
    /\ m_unit_set = Range(m_units)

\* a literal repeated within one input, and submitted again by another
\* caller, is in the log once
C7_Witness ==
    /\ ev.kind = "exchange" /\ ev.in = <<1, 1>> /\ ev.units0 = <<2, 1>>
    /\ ev.s = 1 /\ limit[0] = 2
    /\ m_units = <<2, 1>>

(***************************************************************************)
(* One exchange call as a function of its arguments: the log is any log    *)
(* that exchange calls leave (no repeated literal, the set holding its     *)
(* literals), the caller, the input vector, the watermark and the out      *)
(* vector are any.                                                         *)
(***************************************************************************)
UnitLogs == {q \in SeqsUpTo(Lits, MaxLit) : \A i, j \in DOMAIN q : q[i] = q[j] => i = j}

ExchangeInit ==
    /\ m_pool = reserve(NumThreads, PoolSize)
    /\ pc = [s \in Solvers |-> "idle"]
    /\ todo = [s \in Solvers |-> <<>>]
    /\ nwritten = 0
    /\ wrec = [s \in Solvers |-> NoRec]
    /\ stored = {}
    /\ mark = [s \in Solvers |-> "read"]
    /\ ret = NoRet
    /\ m_units \in UnitLogs
    /\ m_unit_set = Range(m_units)
    /\ syncing = [s \in Solvers |-> FALSE]
    /\ lock = {}
    /\ limit = [s \in Solvers |-> 0]
    /\ delivered = [s \in Solvers |-> << >>]
    /\ author = << >>
    /\ ncalls = 0
    /\ \E s \in Solvers, in \in SeqsUpTo(Lits, MaxIn), w \in 0 .. (MaxLit + 1),
          out0 \in {<< >>, <<1>>} :
           ev = [kind |-> "call", op |-> "exchange", s |-> s, in |-> in,
                 w |-> w, out0 |-> out0]

ExchangeApply ==
    /\ ev.kind = "call"
    /\ LET r == exchange(syncing, ev.s, m_units, m_unit_set, ev.in, ev.w, ev.out0)
       IN  /\ m_units' = r.units
           /\ m_unit_set' = r.unit_set
           /\ limit' = [limit EXCEPT ![ev.s] = r.limit]
           /\ ev' = [kind |-> "exchange", s |-> ev.s, in |-> ev.in, w |-> ev.w,
                     out0 |-> ev.out0, units0 |-> m_units, out |-> r.out]
    /\ UNCHANGED <<syncing, lock, delivered, author, ncalls>>
    /\ UNCHANGED pool_vars

SpecExchange == ExchangeInit /\ [][ExchangeApply]_vars

\* the literals of in that are not in log, each once, in input order
RECURSIVE NewUnits(_, _)
NewUnits(in, log) ==
    IF in = << >> THEN << >>
    ELSE LET rest == NewUnits(Tail(in), log \cup {Head(in)})
         IN  IF Head(in) \in log THEN rest ELSE <<Head(in)>> \o rest

\* C8: one exchange call with watermark w on a log of length m appends to
\* out the log entries w..m-1 in log order (nothing when w >= m), then
\* appends to the log each input literal not yet in it, in input order, and
\* sets the watermark to the new log length; no literal the call adds to the
\* log is among the entries it appended to out.  Scenario B is the case of
\* the empty log and of a second caller with watermark 0.
C8_SingleExchange ==
    ev.kind = "exchange" =>
        LET m     == Len(ev.units0)
            added == SubSeq(ev.out, Len(ev.out0) + 1, Len(ev.out))
            new   == NewUnits(ev.in, Range(ev.units0))
        IN  /\ Len(ev.out) = Len(ev.out0) + (IF ev.w < m THEN m - ev.w ELSE 0)
            /\ SubSeq(ev.out, 1, Len(ev.out0)) = ev.out0
            /\ \A i \in 1 .. Len(added) : added[i] = ev.units0[ev.w + i]
            /\ m_units = ev.units0 \o new
            /\ limit[ev.s] = Len(m_units)
            /\ Range(new) \cap Range(added) = {}
            /\ (ev.units0 = << >> /\ ev.in = <<1, 2>> /\ ev.w = 0 /\ ev.out0 = << >>)
                  => (ev.out = << >> /\ limit[ev.s] = 2)
            /\ (ev.units0 = <<1, 2>> /\ ev.in = << >> /\ ev.w = 0 /\ ev.out0 = << >>)
                  => ev.out = <<1, 2>>

\* a call that both copies out a part of the log and adds to the log: the
\* watermark inside the log, an input with a known and a new literal, an
\* out vector that is not empty
C8_Witness ==
    /\ ev.kind = "exchange" /\ ev.s = 1 /\ ev.in = <<1, 2>> /\ ev.w = 0
    /\ ev.out0 = <<1>> /\ ev.units0 = <<1>> /\ ev.out = <<1, 1>>
    /\ m_units = <<1, 2>> /\ limit[1] = 2

(***************************************************************************)
(* One share_clause(s, c) call as a function of its arguments: the pool is *)
(* empty, or holds one record with the consumers before or past it; the    *)
(* caller, the clause size and the glue are any.                           *)
(***************************************************************************)
ShareSizes == {2, 3, 40, 41, 1000}
ShareGlues == {2, 3, 8, 9}

\* the pools the call finds
SharePools ==
    LET P0 == reserve(NumThreads, PoolSize)
        W  == {share_body(P0, o, Payload(1, k)) : o \in Solvers, k \in ClauseLens}
    IN  {P0} \cup W \cup {drain(P, c) : P \in W, c \in Solvers}

ShareInit ==
    /\ m_pool \in SharePools
    /\ pc = [s \in Solvers |-> "idle"]
    /\ todo = [s \in Solvers |-> <<>>]
    /\ nwritten = 0
    /\ wrec = [s \in Solvers |-> NoRec]
    /\ stored = {}
    /\ mark = [s \in Solvers |-> "read"]
    /\ ret = NoRet
    /\ m_units = << >>
    /\ m_unit_set = {}
    /\ syncing = [s \in Solvers |-> FALSE]
    /\ lock = {}
    /\ limit = [s \in Solvers |-> 0]
    /\ delivered = [s \in Solvers |-> << >>]
    /\ author = << >>
    /\ ncalls = 0
    /\ \E s \in Solvers, n \in ShareSizes, g \in ShareGlues :
           ev = [kind |-> "call", op |-> "share_clause", s |-> s, n |-> n, glue |-> g]

ShareApply ==
    /\ ev.kind = "call"
    /\ m_pool' = share_clause(syncing, ev.s, m_pool, Payload(9, ev.n), ev.glue)
    /\ ev' = [kind |-> "shared", s |-> ev.s, n |-> ev.n, glue |-> ev.glue,
              lits |-> Payload(9, ev.n), pool0 |-> m_pool]
    /\ UNCHANGED <<pc, todo, nwritten, wrec, stored, mark, ret>>
    /\ UNCHANGED <<m_units, m_unit_set, syncing, lock, limit, delivered, author, ncalls>>

SpecShare == ShareInit /\ [][ShareApply]_vars

\* C11: share_clause(s, c) with the guard clear writes one record at the
\* write cursor, tagged s and holding the literals of c in order, exactly
\* when (size <= 40 and glue <= 8) or glue <= 2; for any other size and glue
\* the pool (buffer, write cursor, read cursors, at-tail flags) is unchanged.
\* (40,8) and (1000,2) are shared, (41,8) and (41,3) are not.
C11_ShareFilter ==
    ev.kind = "shared" =>
        LET P0 == ev.pool0
            t  == P0.m_tail
            e  == t + ev.n + 2
        IN  /\ IF (ev.n <= 40 /\ ev.glue <= 8) \/ ev.glue <= 2
               THEN /\ m_pool.m_vectors[t] = ev.s
                    /\ m_pool.m_vectors[t + 1] = ev.n
                    /\ slice(m_pool, t + 2, ev.n) = ev.lits
                    /\ m_pool.m_tail = (IF e >= P0.m_size THEN 0 ELSE e)
                    /\ \A i \in DOMAIN P0.m_vectors :
                          (i < t \/ i >= e) => m_pool.m_vectors[i] = P0.m_vectors[i]
                    /\ m_pool.m_size = P0.m_size
               ELSE m_pool = P0
            /\ (<<ev.n, ev.glue>> \in {<<40, 8>>, <<1000, 2>>}) => m_pool # P0
            /\ (<<ev.n, ev.glue>> \in {<<41, 8>>, <<41, 3>>}) => m_pool = P0

\* a clause of 1000 literals and glue 2 was shared after a record that one
\* consumer had read
C11_Witness ==
    /\ ev.kind = "shared" /\ ev.n = 1000 /\ ev.glue = 2 /\ ev.s = 1
    /\ ev.pool0.m_tail = 4 /\ ev.pool0.m_heads[1] = 4
    /\ m_pool.m_vectors[4] = 1 /\ m_pool.m_vectors[5] = 1000
    /\ m_pool.m_tail = 0

(***************************************************************************)
(* init_solvers(s, num_extra_solvers).  The master's parameters are the    *)
(* two options the function writes: phase (read with the default           *)
(* "caching", so held as its effective value) and random_seed.  rands is   *)
(* the sequence of values s.m_rand() returns.                              *)
(***************************************************************************)
MaxClones == 6

Phases == {"caching", "always_false", "random"}
Seeds == {0, 1}
Rands == {1, 2}

\* the for loop of lines 109-118 from index i on: the parameters it leaves
\* and the clones it creates, each with the parameters it was allocated with
RECURSIVE init_loop(_, _, _, _, _, _)
init_loop(params, num_threads, num_extra_solvers, i, rands, clones) ==
    IF i >= num_extra_solvers THEN [params |-> params, clones |-> clones]
    ELSE LET p1 == [params EXCEPT !.random_seed = rands[i + 1]]
             p2 == IF i = 1 + (num_threads \div 2)
                   THEN [p1 EXCEPT !.phase = "random"]
                   ELSE p1
         IN  init_loop(p2, num_threads, num_extra_solvers, i + 1, rands,
                       Append(clones, [params |-> p2, par_id |-> i,
                                       syncing |-> FALSE]))

\* init_solvers: the master's parameters and id afterwards, and the clones
init_solvers(params, num_extra_solvers, rands) ==
    LET num_threads == num_extra_solvers + 1
        saved_phase == params.phase
        r == init_loop(params, num_threads, num_extra_solvers, 0, rands, << >>)
    IN  [params |-> [r.params EXCEPT !.phase = saved_phase],
         clones |-> r.clones,
         par_id |-> num_extra_solvers]

InitSolversInit ==
    /\ m_pool = reserve(NumThreads, PoolSize)
    /\ pc = [s \in Solvers |-> "idle"]
    /\ todo = [s \in Solvers |-> <<>>]
    /\ nwritten = 0
    /\ wrec = [s \in Solvers |-> NoRec]
    /\ stored = {}
    /\ mark = [s \in Solvers |-> "read"]
    /\ ret = NoRet
    /\ m_units = << >>
    /\ m_unit_set = {}
    /\ syncing = [s \in Solvers |-> FALSE]
    /\ lock = {}
    /\ limit = [s \in Solvers |-> 0]
    /\ delivered = [s \in Solvers |-> << >>]
    /\ author = << >>
    /\ ncalls = 0
    /\ \E k \in 0 .. MaxClones, ph \in Phases, sd \in Seeds :
         \E rands \in [1 .. k -> Rands] :
           ev = [kind |-> "call", op |-> "init_solvers", k |-> k,
                 params |-> [phase |-> ph, random_seed |-> sd], rands |-> rands]

InitSolversApply ==
    /\ ev.kind = "call"
    /\ LET r == init_solvers(ev.params, ev.k, ev.rands)
       IN  ev' = [kind |-> "init_solvers", k |-> ev.k, params0 |-> ev.params,
                  rands |-> ev.rands, params |-> r.params, clones |-> r.clones,
                  par_id |-> r.par_id]
    /\ UNCHANGED <<m_pool, pc, todo, nwritten, wrec, stored, mark, ret>>
    /\ UNCHANGED <<m_units, m_unit_set, syncing, lock, limit, delivered, author, ncalls>>

SpecInitSolvers == InitSolversInit /\ [][InitSolversApply]_vars

\* C12: after init_solvers(master, k), with a master whose phase is not
\* itself "random", the clone of index 1 + k/2 (when below k) is the only
\* clone created with phase "random"; every other clone, also those created
\* after it, is created with the phase the master had before the call.
C12_OneDiversifiedClone ==
    (ev.kind = "init_solvers" /\ ev.params0.phase # "random") =>
        \A i \in 0 .. (ev.k - 1) :
            ev.clones[i + 1].params.phase =
                (IF i = 1 + (ev.k \div 2) THEN "random" ELSE ev.params0.phase)

\* C13: after init_solvers(master, k) the options written during cloning,
\* random_seed and phase, have in the master's parameters the values they had
\* before the call.
C13_MasterConfigRestored ==
    ev.kind = "init_solvers" => ev.params = ev.params0

(***************************************************************************)
(* The ring buffer driven with records of any length, also records whose   *)
(* n + 2 words exceed the capacity given to reserve.                       *)
(***************************************************************************)
\* lengths that fit, that fill the buffer, and that exceed it
OverLens == {0, MaxLen, PoolSize - 2, PoolSize - 1, PoolSize}

\* begin_add_vector is called between writes, where m_tail < m_size holds
\* (end_add_vector wraps the cursor), so SASSERT(m_tail < m_size) of line 49
\* passes in a debug build and is compiled out of a release build: both
\* builds go on to the write.  No other test of n is made.
OverNext ==
    \/ \E o \in Solvers, n \in OverLens : PoolBegin(o, n)
    \/ \E o \in Solvers : PoolElem(o)
    \/ \E o \in Solvers : PoolEnd(o)
    \/ \E c \in Solvers : PoolGet(c)

SpecOversize == PoolInit /\ [][OverNext]_vars

\* C14: a write begin_add_vector(owner, n) with n + 2 greater than the
\* capacity is not accepted: no such record is being written or stored, and
\* no get_vector call returns one.
C14_OversizedRejected ==
    /\ \A o \in Solvers :
          wrec[o] # NoRec => Len(wrec[o].lits) + 2 <= m_pool.m_size
    /\ \A r \in stored : Len(r.lits) + 2 <= m_pool.m_size
    /\ (ret.op = "get" /\ ret.ok) => ret.n + 2 <= m_pool.m_size

\* a write made as the critical region of share_clause makes it: one whole
\* record of solver o, n literals
OrderShare(o, n) ==
    /\ nwritten < MaxWrites
    /\ m_pool' = share_body(m_pool, o, Payload(nwritten + 1, n))
    /\ nwritten' = nwritten + 1
    /\ stored' = clobber(stored, m_pool.m_tail, n) \cup
                    {[pos |-> m_pool.m_tail, seq |-> nwritten + 1,
                      owner |-> o, lits |-> Payload(nwritten + 1, n)]}
    /\ ret' = NoRet
    /\ UNCHANGED <<pc, todo, wrec, mark>>
    /\ UNCHANGED coord_vars

(***************************************************************************)
(* The coordinator on a small ring buffer: the threads call share_clause   *)
(* and get_clauses, step by step as in Spec (guard flag, region par_solver,*)
(* one get_vector call at a time, mk_clause_core and its calls back in     *)
(* between), on a pool of PoolSize words, which the records written wrap   *)
(* around.                                                                 *)
(***************************************************************************)
\* the get_vector calls the loop of _get_clauses makes from pool P on, the
\* call that returns false included
RECURSIVE drain_calls(_, _)
drain_calls(P, owner) ==
    LET r == get_vector(P, owner)
    IN  IF r.ok THEN 1 + drain_calls(r.pool, owner) ELSE 1

DrainNext ==
    \/ \E s \in Solvers : ShCall2(s)
    \/ \E s \in Solvers, n \in ClauseLens, g \in Glues : ShCall(s, n, g)
    \/ \E s \in Solvers : GcCall(s)
    \/ \E s \in Solvers : Enter(s)
    \/ \E s \in Solvers : ShBegin(s)
    \/ \E s \in Solvers : ShAdd(s)
    \/ \E s \in Solvers : ShEnd(s)
    \/ \E s \in Solvers : GcGet(s)
    \/ \E s \in Solvers, op \in NestedOps : Nested(s, op)
    \/ \E s \in Solvers : GcCoreReturn(s)

SpecDrain == PoolInit /\ [][DrainNext]_vars

\* the threads inside the loop of _get_clauses
Draining == {s \in Solvers : pc[s] \in {"gc_loop", "gc_core"}}

\* C15: a get_clauses call that passed the guard makes finitely many
\* get_vector calls: wherever its loop stands, at most one per record written
\* plus one remain, each successful get_vector call leaves one fewer, and
\* nothing done between two of them (mk_clause_core and its calls back into
\* the coordinator) changes that number.  When the call returns, the read
\* cursor of the caller equals the write cursor and its at-tail flag is set,
\* and a get_clauses call made next finds nothing: its first get_vector call
\* returns false and the pool stays as it is.
C15_DrainReachesTail ==
    /\ [](\A s \in Draining : drain_calls(m_pool, s) <= nwritten + 1)
    /\ [][\A s \in Draining :
            /\ s \in Draining' =>
                  drain_calls(m_pool', s) =
                     drain_calls(m_pool, s) -
                        (IF pc[s] = "gc_loop" /\ pc'[s] = "gc_core" THEN 1 ELSE 0)
            /\ s \notin Draining' => drain_calls(m_pool, s) = 1]_vars
    /\ []((ev.kind = "return" /\ ev.op = "get_clauses") =>
             /\ m_pool.m_heads[ev.s] = m_pool.m_tail
             /\ m_pool.m_at_end[ev.s]
             /\ ~get_vector(m_pool, ev.s).ok
             /\ get_clauses(syncing, ev.s, m_pool) = m_pool)

\* a get_clauses call returned that was handed two records, the second one
\* written past the end of the buffer, from a cursor the write cursor had
\* come round to; mk_clause_core ran in between
C15_Witness ==
    /\ ev.kind = "return" /\ ev.op = "get_clauses"
    /\ nwritten = 2 /\ Len(delivered[ev.s]) = 2
    /\ m_pool.m_tail = 0 /\ m_pool.m_heads[ev.s] = 0
    /\ delivered[ev.s][2] = Payload(2, 2)

\* C16: the guard flag of a solver is set exactly while one of its own
\* top-level exchange, share_clause or get_clauses calls is past the guard
\* and has not returned; with no call in progress (also after a share_clause
\* the heuristic rejected, and after a call that held nested guarded calls)
\* the flag is clear, and the next top-level exchange, 2-literal share_clause
\* or get_clauses call of the solver is not suppressed.
C16_GuardFlagLifetime ==
    /\ \A s \in Solvers : syncing[s] <=> pc[s] # "idle"
    /\ (ev.kind = "call" /\ ev.op \in {"exchange", "share_clause2", "get_clauses"})
          => (pc[ev.s] # "idle" /\ syncing[ev.s])

\* a solver whose get_clauses call handed a clause to mk_clause_core has
\* returned, and its next top-level call went past the guard
C16_Witness ==
    /\ ev.kind = "call" /\ ev.op = "exchange"
    /\ delivered[ev.s] # << >>
    /\ pc[ev.s] = "ex_wait" /\ syncing[ev.s]
    /\ \A t \in Solvers \ {ev.s} : ~syncing[t]

(***************************************************************************)
(* The coordinator under fair scheduling: a thread inside a call keeps     *)
(* running, and a thread waiting for the region par_solver enters it once  *)
(* the region stays free.  Nothing is assumed of mk_clause_core, which is  *)
(* not part of the coordinator.                                            *)
(***************************************************************************)
Fairness ==
    \A s \in Solvers :
        /\ WF_vars(Enter(s))
        /\ WF_vars(ExBody(s))
        /\ WF_vars(ShBegin(s))
        /\ WF_vars(ShAdd(s))
        /\ WF_vars(ShEnd(s))
        /\ WF_vars(GcGet(s))

SpecFair == Init /\ [][Next]_vars /\ Fairness

\* C17: no thread waits to enter the critical region while it holds it, also
\* when mk_clause_core calls share_clause, exchange or get_clauses on its own
\* solver; under fair scheduling every call that was started returns,
\* provided mk_clause_core returns each time get_clauses runs it.
C17_NoDeadlock ==
    /\ [](\A s \in Solvers :
             /\ pc[s] # "reenter"
             /\ pc[s] \in {"ex_wait", "sh_wait", "gc_wait"} => s \notin lock)
    /\ (\A s \in Solvers : []<>(pc[s] # "gc_core")) =>
          (\A s \in Solvers : (pc[s] # "idle") ~> (pc[s] = "idle"))

\* mk_clause_core called share_clause on its own solver, inside the region,
\* and is running on
C17_Witness ==
    /\ ev.kind = "nested" /\ ev.op = "share_clause"
    /\ pc[ev.s] = "gc_core" /\ lock = {ev.s} /\ syncing[ev.s]
    /\ delivered[ev.s] # << >>

(***************************************************************************)
(* Cursor eviction in begin_add_vector.  ret holds the pool the call found *)
(* (pool0) and the length n it was given.                                  *)
(***************************************************************************)
\* h2 is reached from h by one to k hops of next over the records of P
RECURSIVE Hops(_, _, _, _)
Hops(P, h, h2, k) ==
    /\ k > 0
    /\ \/ next(P, h) = h2
       \/ Hops(P, next(P, h), h2, k - 1)

\* C18 as stated: every consumer whose cursor h satisfies t <= h < t+n+2
\* when begin_add_vector(owner, n) is invoked has its cursor outside
\* [t, t+n+2) and its at-tail flag clear once the header is written.
C18_EvictInclusive ==
    ret.op = "begin" =>
        LET t == ret.pool0.m_tail
            e == t + ret.n + 2
        IN  \A c \in Solvers :
                (t <= ret.pool0.m_heads[c] /\ ret.pool0.m_heads[c] < e) =>
                    /\ ~(t <= m_pool.m_heads[c] /\ m_pool.m_heads[c] < e)
                    /\ ~m_pool.m_at_end[c]

\* C18 amended: a cursor h with t < h < t+n+2 is moved, record by record
\* over the records the pool held before the write, to the first position
\* that is not strictly between t and t+n+2 (position 0 after a wrap, which
\* may be t itself); a cursor at t or outside the span stays where it is;
\* every consumer's at-tail flag is cleared.
C18_EvictStrict ==
    ret.op = "begin" =>
        LET P0 == ret.pool0
            t  == P0.m_tail
            e  == t + ret.n + 2
        IN  \A c \in Solvers :
                /\ ~m_pool.m_at_end[c]
                /\ ~(t < m_pool.m_heads[c] /\ m_pool.m_heads[c] < e)
                /\ IF t < P0.m_heads[c] /\ P0.m_heads[c] < e
                   THEN Hops(P0, P0.m_heads[c], m_pool.m_heads[c], P0.m_size)
                   ELSE m_pool.m_heads[c] = P0.m_heads[c]

\* a write at index 0 found one cursor at the write cursor and one inside
\* the span: the first stayed, the second was moved
C18_Witness ==
    /\ ret.op = "begin" /\ ret.pool0.m_tail = 0
    /\ \E c, d \in Solvers :
          /\ ret.pool0.m_heads[c] = 0 /\ m_pool.m_heads[c] = 0
          /\ ret.pool0.m_heads[d] > 0 /\ ret.pool0.m_heads[d] < ret.n + 2
          /\ m_pool.m_heads[d] # ret.pool0.m_heads[d]

(***************************************************************************)
(* The ring buffer with the history of what each consumer was returned.    *)
(* A write is the critical region of share_clause, one whole record; a     *)
(* read is one get_vector call.  delivered[c] lists, for every successful  *)
(* get_vector(c), the number of the write (1 for the first record written) *)
(* whose record stands whole at the index returned, 0 when there is none,  *)
(* and the payload returned.                                               *)
(***************************************************************************)
OrderGet(c) ==
    /\ LET r    == get_vector(m_pool, c)
           lits == IF r.ok THEN slice(r.pool, r.ptr, r.n) ELSE <<>>
       IN  /\ m_pool' = r.pool
           /\ delivered' = IF r.ok
                           THEN [delivered EXCEPT ![c] =
                                   Append(@, [seq |-> RecAt(r.head).seq, lits |-> lits])]
                           ELSE delivered
    /\ ret' = NoRet
    /\ UNCHANGED <<pc, todo, nwritten, wrec, stored, mark>>
    /\ UNCHANGED <<m_units, m_unit_set, syncing, lock, limit, author, ev, ncalls>>

OrderNext ==
    \/ \E o \in Solvers, n \in Lens : OrderShare(o, n)
    \/ \E c \in Solvers : OrderGet(c)

SpecOrder == PoolInit /\ [][OrderNext]_vars

\* C19: the records returned to a consumer by successful get_vector calls
\* are records that were written, in the order they were written: none is
\* returned twice and none after a record written later.
C19_OrderedAtMostOnce ==
    \A c \in Solvers :
        \A i, j \in DOMAIN delivered[c] :
            /\ delivered[c][i].seq >= 1
            /\ delivered[c][i].lits =
                  Payload(delivered[c][i].seq, Len(delivered[c][i].lits))
            /\ i < j => delivered[c][i].seq < delivered[c][j].seq

\* a consumer was returned the first record and then, at index 0 after the
\* write cursor wrapped, the third: the second was lost or its own
C19_Witness ==
    \E c \in Solvers :
        /\ Len(delivered[c]) = 2
        /\ delivered[c][1].seq = 1 /\ delivered[c][2].seq = 3
        /\ RecAt(0).seq = 3 /\ m_pool.m_heads[c] = m_pool.m_tail

(***************************************************************************)
(* The unit exchange with the history of what each caller received: whole  *)
(* exchange calls in any order, any caller, any input; every caller starts *)
(* with watermark 0 and an empty out vector, passes the watermark its own  *)
(* previous call set, and keeps appending to the same out vector.          *)
(* delivered[c] is that out vector; author[i] is the caller whose call     *)
(* appended m_units[i].                                                    *)
(***************************************************************************)
LogExchange(s, in) ==
    LET r == exchange(syncing, s, m_units, m_unit_set, in, limit[s], delivered[s])
    IN  /\ m_units' = r.units
        /\ m_unit_set' = r.unit_set
        /\ limit' = [limit EXCEPT ![s] = r.limit]
        /\ delivered' = [delivered EXCEPT ![s] = r.out]
        /\ author' = author \o [i \in 1 .. (Len(r.units) - Len(m_units)) |-> s]
        /\ ev' = [kind |-> "exchange", s |-> s, n |-> Len(in), w |-> limit[s],
                  units0 |-> m_units, out |-> r.out]
        /\ UNCHANGED <<syncing, lock, ncalls>>
        /\ UNCHANGED pool_vars

LogNext ==
    \E s \in Solvers, in \in SeqsUpTo(Lits, MaxIn) : LogExchange(s, in)

SpecLog == UnitsInit /\ [][LogNext]_vars

\* the first k entries of the log without those appended by c's own calls
RECURSIVE FromOthers(_, _)
FromOthers(c, k) ==
    IF k = 0 THEN << >>
    ELSE IF author[k] # c
         THEN Append(FromOthers(c, k - 1), m_units[k])
         ELSE FromOthers(c, k - 1)

\* C20: with faithful watermarks, what a caller has received in out is the
\* log, in log order, restricted to the entries appended by other callers'
\* calls before the caller's latest call: none skipped, none twice, none of
\* its own.  (limit[c] is the length of the log when c's latest call
\* returned; the entries that call appended are c's own.)
C20_LosslessUnits ==
    /\ Len(author) = Len(m_units)
    /\ \A c \in Solvers :
          /\ limit[c] <= Len(m_units)
          /\ delivered[c] = FromOthers(c, limit[c])

\* both callers contributed a unit and each has received the other's, the
\* later caller after a further call of the first
C20_Witness ==
    /\ m_units = <<1, 2>> /\ author = <<0, 1>>
    /\ delivered[0] = <<2>> /\ delivered[1] = <<1>>
    /\ ev.kind = "exchange" /\ ev.s = 0

====
